---- MODULE Spec2Model ----
(***************************************************************************)
(* The entity graph of src/models.py: the tables that take part in a       *)
(* derived ancestry (plant, zone, loop, line, cell, the user and its role  *)
(* records, production, loss, attendance), the TimestampMixin columns on   *)
(* every row, and the derived-ancestor properties, each written as the     *)
(* source writes it.  Columns that no derived ancestor reads (shift,       *)
(* loss_reason, attendance_type and the quantity columns) are left out.    *)
(***************************************************************************)
EXTENDS Integers, Sequences, FiniteSets, TLC

VARIABLES db, now, res, walk, reply

vars == <<db, now, res, walk, reply>>

\* ------------------------------------------------------------------ bounds
\* Clock readings run 1..MaxTime; every write takes one reading.
MaxTime == 4
\* Rows a hierarchy table may hold.
MaxRows == 2

\* ------------------------------------------------------------------ schema
\* Python's None / SQL NULL.  Keys and clock readings are >= 1.
None == 0

HierarchyTables == {"plant", "zone", "loop", "line", "cell"}
RoleTables == {"admin", "plant_admin", "planner", "team_leader", "member"}
Tables == HierarchyTables \cup RoleTables \cup {"user", "production", "loss", "attendance"}

\* ForeignKey columns of each table that point to a parent, with their target.
ForeignKeys ==
  [ plant       |-> <<>>,
    zone        |-> [plant_id |-> "plant"],
    loop        |-> [zone_id |-> "zone"],
    line        |-> [loop_id |-> "loop"],
    cell        |-> [line_id |-> "line"],
    user        |-> <<>>,
    admin       |-> <<>>,
    plant_admin |-> [plant_id |-> "plant"],
    planner     |-> [plant_id |-> "plant"],
    team_leader |-> [line_id |-> "line"],
    member      |-> [cell_id |-> "cell"],
    production  |-> [line_id |-> "line"],
    loss        |-> [production_id |-> "production"],
    attendance  |-> [member_id |-> "member", working_cell_id |-> "cell"] ]

UserRole == {"SUPER_ADMIN", "ADMIN", "PLANT_ADMIN", "PLANNER", "TEAM_LEADER", "MEMBER"}

Names == {"n0", "n1"}

\* ------------------------------------------------------------------ audit
\* A mutant of TimestampMixin: is_deleted declared with default=True.
TimestampMixin_default_true(t) ==
  [created_at |-> t, updated_at |-> t, deleted_at |-> None, is_deleted |-> TRUE]

\* The column defaults of a new row: created_at and updated_at default to
\* func.now(), deleted_at has no default (NULL), is_deleted defaults to False.
TimestampMixin(t) ==
  [created_at |-> t, updated_at |-> t, deleted_at |-> None, is_deleted |-> FALSE]

\* A mutant of onupdate: onupdate=func.now() put on deleted_at as well.
OnUpdate_deleted_at(row, t) ==
  [row EXCEPT !.updated_at = t, !.deleted_at = t]

\* updated_at carries onupdate=func.now(): every UPDATE of the row refreshes it.
OnUpdate(row, t) == [row EXCEPT !.updated_at = t]

\* ------------------------------------------------------------------ relationships
\* relationship(): the parent a foreign key names, None for a NULL key.  The
\* relationship does not look at is_deleted.
Zone_plant(z) == db["zone"][z].plant_id
Loop_zone(l) == db["loop"][l].zone_id

\* A mutant of Line.loop: joined on line.id instead of line.loop_id.
Line_loop_by_id(l) == IF l \in DOMAIN db["loop"] THEN l ELSE None

Line_loop(l) == db["line"][l].loop_id
Cell_line(c) == db["cell"][c].line_id
TeamLeader_line(u) == db["team_leader"][u].line_id
Member_cell(u) == db["member"][u].cell_id
Production_line(p) == db["production"][p].line_id
Loss_production(l) == db["loss"][l].production_id
Attendance_member(a) == db["attendance"][a].member_id
Attendance_working_cell(a) == db["attendance"][a].working_cell_id

\* ------------------------------------------------------------------ derived ancestors
\* Each property is the source's conditional expression: the guard's conjuncts
\* are evaluated left to right and stop at the first None.
Loop_plant(l) ==
  IF Loop_zone(l) # None THEN Zone_plant(Loop_zone(l)) ELSE None

Line_zone(l) ==
  IF Line_loop(l) # None THEN Loop_zone(Line_loop(l)) ELSE None

\* A mutant of Line.plant: the trailing .plant forgotten.
Line_plant_no_hop(l) ==
  IF Line_loop(l) # None /\ Loop_zone(Line_loop(l)) # None
  THEN Loop_zone(Line_loop(l)) ELSE None

Line_plant(l) ==
  IF Line_loop(l) # None /\ Loop_zone(Line_loop(l)) # None
  THEN Zone_plant(Loop_zone(Line_loop(l))) ELSE None

Cell_loop(c) ==
  IF Cell_line(c) # None THEN Line_loop(Cell_line(c)) ELSE None

Cell_zone(c) ==
  IF Cell_line(c) # None /\ Line_loop(Cell_line(c)) # None
  THEN Loop_zone(Line_loop(Cell_line(c))) ELSE None

\* A mutant of Cell.plant: returns the zone reached (the trailing .plant forgotten).
Cell_plant_no_hop(c) == Cell_zone(c)

\* A mutant of Cell.plant: a deleted zone is treated as missing.
Cell_plant_skip_deleted(c) ==
  IF Cell_line(c) # None /\ Line_loop(Cell_line(c)) # None
     /\ Loop_zone(Line_loop(Cell_line(c))) # None
     /\ ~db["zone"][Loop_zone(Line_loop(Cell_line(c)))].is_deleted
     /\ ~db["loop"][Line_loop(Cell_line(c))].is_deleted
  THEN Zone_plant(Loop_zone(Line_loop(Cell_line(c)))) ELSE None

Cell_plant(c) ==
  IF Cell_line(c) # None /\ Line_loop(Cell_line(c)) # None
     /\ Loop_zone(Line_loop(Cell_line(c))) # None
  THEN Zone_plant(Loop_zone(Line_loop(Cell_line(c)))) ELSE None

TeamLeader_loop(u) ==
  IF TeamLeader_line(u) # None THEN Line_loop(TeamLeader_line(u)) ELSE None

TeamLeader_zone(u) ==
  IF TeamLeader_line(u) # None /\ Line_loop(TeamLeader_line(u)) # None
  THEN Loop_zone(Line_loop(TeamLeader_line(u))) ELSE None

TeamLeader_plant(u) ==
  IF TeamLeader_line(u) # None /\ Line_loop(TeamLeader_line(u)) # None
     /\ Loop_zone(Line_loop(TeamLeader_line(u))) # None
  THEN Zone_plant(Loop_zone(Line_loop(TeamLeader_line(u)))) ELSE None

Member_line(u) ==
  IF Member_cell(u) # None THEN Cell_line(Member_cell(u)) ELSE None

Member_loop(u) ==
  IF Member_cell(u) # None /\ Cell_line(Member_cell(u)) # None
  THEN Line_loop(Cell_line(Member_cell(u))) ELSE None

Member_zone(u) ==
  IF Member_cell(u) # None /\ Cell_line(Member_cell(u)) # None
     /\ Line_loop(Cell_line(Member_cell(u))) # None
  THEN Loop_zone(Line_loop(Cell_line(Member_cell(u)))) ELSE None

Member_plant(u) ==
  IF Member_cell(u) # None /\ Cell_line(Member_cell(u)) # None
     /\ Line_loop(Cell_line(Member_cell(u))) # None
     /\ Loop_zone(Line_loop(Cell_line(Member_cell(u)))) # None
  THEN Zone_plant(Loop_zone(Line_loop(Cell_line(Member_cell(u))))) ELSE None

Production_loop(p) ==
  IF Production_line(p) # None THEN Line_loop(Production_line(p)) ELSE None

Production_zone(p) ==
  IF Production_line(p) # None /\ Line_loop(Production_line(p)) # None
  THEN Loop_zone(Line_loop(Production_line(p))) ELSE None

Production_plant(p) ==
  IF Production_line(p) # None /\ Line_loop(Production_line(p)) # None
     /\ Loop_zone(Line_loop(Production_line(p))) # None
  THEN Zone_plant(Loop_zone(Line_loop(Production_line(p)))) ELSE None

Loss_line(l) ==
  IF Loss_production(l) # None THEN Production_line(Loss_production(l)) ELSE None

Loss_loop(l) ==
  IF Loss_production(l) # None /\ Production_line(Loss_production(l)) # None
  THEN Line_loop(Production_line(Loss_production(l))) ELSE None

\* A mutant of Loss.zone: the guard on production.line.loop is missing and the
\* loop reached is returned without its zone.
Loss_zone_short(l) ==
  IF Loss_production(l) # None /\ Production_line(Loss_production(l)) # None
  THEN Line_loop(Production_line(Loss_production(l))) ELSE None

Loss_zone(l) ==
  IF Loss_production(l) # None /\ Production_line(Loss_production(l)) # None
     /\ Line_loop(Production_line(Loss_production(l))) # None
  THEN Loop_zone(Line_loop(Production_line(Loss_production(l)))) ELSE None

Loss_plant(l) ==
  IF Loss_production(l) # None /\ Production_line(Loss_production(l)) # None
     /\ Line_loop(Production_line(Loss_production(l))) # None
     /\ Loop_zone(Line_loop(Production_line(Loss_production(l)))) # None
  THEN Zone_plant(Loop_zone(Line_loop(Production_line(Loss_production(l))))) ELSE None

\* Working cell hierarchy
Attendance_working_line(a) ==
  IF Attendance_working_cell(a) # None
  THEN Cell_line(Attendance_working_cell(a)) ELSE None

Attendance_working_loop(a) ==
  IF Attendance_working_cell(a) # None /\ Cell_line(Attendance_working_cell(a)) # None
  THEN Line_loop(Cell_line(Attendance_working_cell(a))) ELSE None

Attendance_working_zone(a) ==
  IF Attendance_working_cell(a) # None /\ Cell_line(Attendance_working_cell(a)) # None
     /\ Line_loop(Cell_line(Attendance_working_cell(a))) # None
  THEN Loop_zone(Line_loop(Cell_line(Attendance_working_cell(a)))) ELSE None

\* Member's normal location hierarchy
Attendance_member_cell(a) ==
  IF Attendance_member(a) # None THEN Member_cell(Attendance_member(a)) ELSE None

Attendance_member_line(a) ==
  IF Attendance_member(a) # None /\ Member_cell(Attendance_member(a)) # None
  THEN Cell_line(Member_cell(Attendance_member(a))) ELSE None

Attendance_member_loop(a) ==
  IF Attendance_member(a) # None /\ Member_cell(Attendance_member(a)) # None
     /\ Cell_line(Member_cell(Attendance_member(a))) # None
  THEN Line_loop(Cell_line(Member_cell(Attendance_member(a)))) ELSE None

Attendance_member_zone(a) ==
  IF Attendance_member(a) # None /\ Member_cell(Attendance_member(a)) # None
     /\ Cell_line(Member_cell(Attendance_member(a))) # None
     /\ Line_loop(Cell_line(Member_cell(Attendance_member(a)))) # None
  THEN Loop_zone(Line_loop(Cell_line(Member_cell(Attendance_member(a))))) ELSE None

Attendance_member_plant(a) ==
  IF Attendance_member(a) # None /\ Member_cell(Attendance_member(a)) # None
     /\ Cell_line(Member_cell(Attendance_member(a))) # None
     /\ Line_loop(Cell_line(Member_cell(Attendance_member(a)))) # None
     /\ Loop_zone(Line_loop(Cell_line(Member_cell(Attendance_member(a))))) # None
  THEN Zone_plant(Loop_zone(Line_loop(Cell_line(Member_cell(Attendance_member(a))))))
  ELSE None

\* A mutant of Attendance.working_plant: an unresolved working chain falls back
\* to the member's plant.
Attendance_working_plant_fallback(a) ==
  IF Attendance_working_cell(a) # None /\ Cell_line(Attendance_working_cell(a)) # None
     /\ Line_loop(Cell_line(Attendance_working_cell(a))) # None
     /\ Loop_zone(Line_loop(Cell_line(Attendance_working_cell(a)))) # None
  THEN Zone_plant(Loop_zone(Line_loop(Cell_line(Attendance_working_cell(a)))))
  ELSE Attendance_member_plant(a)

Attendance_working_plant(a) ==
  IF Attendance_working_cell(a) # None /\ Cell_line(Attendance_working_cell(a)) # None
     /\ Line_loop(Cell_line(Attendance_working_cell(a))) # None
     /\ Loop_zone(Line_loop(Cell_line(Attendance_working_cell(a)))) # None
  THEN Zone_plant(Loop_zone(Line_loop(Cell_line(Attendance_working_cell(a)))))
  ELSE None

\* ------------------------------------------------------------------ hop lists
\* The ordered foreign-key hops behind each derived property.
Chain ==
  [ loop |-> [plant |-> <<"zone_id", "plant_id">>],
    line |-> [zone  |-> <<"loop_id", "zone_id">>,
              plant |-> <<"loop_id", "zone_id", "plant_id">>],
    cell |-> [loop  |-> <<"line_id", "loop_id">>,
              zone  |-> <<"line_id", "loop_id", "zone_id">>,
              plant |-> <<"line_id", "loop_id", "zone_id", "plant_id">>],
    team_leader |-> [loop  |-> <<"line_id", "loop_id">>,
                     zone  |-> <<"line_id", "loop_id", "zone_id">>,
                     plant |-> <<"line_id", "loop_id", "zone_id", "plant_id">>],
    member |-> [line  |-> <<"cell_id", "line_id">>,
                loop  |-> <<"cell_id", "line_id", "loop_id">>,
                zone  |-> <<"cell_id", "line_id", "loop_id", "zone_id">>,
                plant |-> <<"cell_id", "line_id", "loop_id", "zone_id", "plant_id">>],
    production |-> [loop  |-> <<"line_id", "loop_id">>,
                    zone  |-> <<"line_id", "loop_id", "zone_id">>,
                    plant |-> <<"line_id", "loop_id", "zone_id", "plant_id">>],
    loss |-> [line  |-> <<"production_id", "line_id">>,
              loop  |-> <<"production_id", "line_id", "loop_id">>,
              zone  |-> <<"production_id", "line_id", "loop_id", "zone_id">>,
              plant |-> <<"production_id", "line_id", "loop_id", "zone_id", "plant_id">>],
    attendance |->
      [working_line  |-> <<"working_cell_id", "line_id">>,
       working_loop  |-> <<"working_cell_id", "line_id", "loop_id">>,
       working_zone  |-> <<"working_cell_id", "line_id", "loop_id", "zone_id">>,
       working_plant |-> <<"working_cell_id", "line_id", "loop_id", "zone_id", "plant_id">>,
       member_cell   |-> <<"member_id", "cell_id">>,
       member_line   |-> <<"member_id", "cell_id", "line_id">>,
       member_loop   |-> <<"member_id", "cell_id", "line_id", "loop_id">>,
       member_zone   |-> <<"member_id", "cell_id", "line_id", "loop_id", "zone_id">>,
       member_plant  |-> <<"member_id", "cell_id", "line_id", "loop_id", "zone_id",
                           "plant_id">>] ]

DerivedTables == DOMAIN Chain

\* The raw walk, entity by entity: every derived property of row id of table t.
Derived(t, id) ==
  CASE t = "loop" -> [plant |-> Loop_plant(id)]
    [] t = "line" -> [zone |-> Line_zone(id), plant |-> Line_plant(id)]
    [] t = "cell" -> [loop |-> Cell_loop(id), zone |-> Cell_zone(id),
                      plant |-> Cell_plant(id)]
    [] t = "team_leader" -> [loop |-> TeamLeader_loop(id), zone |-> TeamLeader_zone(id),
                             plant |-> TeamLeader_plant(id)]
    [] t = "member" -> [line |-> Member_line(id), loop |-> Member_loop(id),
                        zone |-> Member_zone(id), plant |-> Member_plant(id)]
    [] t = "production" -> [loop |-> Production_loop(id), zone |-> Production_zone(id),
                            plant |-> Production_plant(id)]
    [] t = "loss" -> [line |-> Loss_line(id), loop |-> Loss_loop(id),
                      zone |-> Loss_zone(id), plant |-> Loss_plant(id)]
    [] t = "attendance" ->
         [working_line  |-> Attendance_working_line(id),
          working_loop  |-> Attendance_working_loop(id),
          working_zone  |-> Attendance_working_zone(id),
          working_plant |-> Attendance_working_plant(id),
          member_cell   |-> Attendance_member_cell(id),
          member_line   |-> Attendance_member_line(id),
          member_loop   |-> Attendance_member_loop(id),
          member_zone   |-> Attendance_member_zone(id),
          member_plant  |-> Attendance_member_plant(id)]

\* The live walk: hop by hop along the property's hop list, unresolved at the
\* first hop whose reference is null or whose parent is marked deleted.  hop is
\* the 1-based hop it stopped at, 0 when it resolved.
RECURSIVE LiveFrom(_, _, _, _)
LiveFrom(t, id, path, k) ==
  IF path = <<>> THEN [entity |-> id, hop |-> 0]
  ELSE LET ref == db[t][id][Head(path)]
           tgt == ForeignKeys[t][Head(path)]
       IN IF ref = None THEN [entity |-> None, hop |-> k]
          ELSE IF db[tgt][ref].is_deleted THEN [entity |-> None, hop |-> k]
          ELSE LiveFrom(tgt, ref, Tail(path), k + 1)

LiveWalk(t, id, p) == LiveFrom(t, id, Chain[t][p], 1)

\* ------------------------------------------------------------------ initial databases
NoRes == [t |-> "none", id |-> None, props |-> <<>>]
Idle == [status |-> "idle", id |-> None, p |-> "none", chain |-> 0, pos |-> 0,
         cur |-> None, result |-> None]
NoReply == [op |-> "none", user |-> None, kind |-> "none", anchor |-> None,
            result |-> "none"]

EmptyDB == [t \in Tables |-> <<>>]

NewRow(fields, t) == fields @@ TimestampMixin(t)

\* Two plants and one chain zone 1 -> loop 1 -> line 1 -> cell 1 under plant 1.
OneChain ==
  [EmptyDB EXCEPT
     !["plant"] = [i \in 1..2 |-> NewRow([name |-> "n0"], 1)],
     !["zone"]  = [i \in 1..1 |-> NewRow([name |-> "n0", plant_id |-> 1], 1)],
     !["loop"]  = [i \in 1..1 |-> NewRow([name |-> "n0", zone_id |-> 1], 1)],
     !["line"]  = [i \in 1..1 |-> NewRow([name |-> "n0", loop_id |-> 1], 1)],
     !["cell"]  = [i \in 1..1 |-> NewRow([name |-> "n0", line_id |-> 1], 1)]]

Quiet == res = NoRes /\ walk = Idle /\ reply = NoReply

Init == db = OneChain /\ now = 1 /\ Quiet

\* ------------------------------------------------------------------ writes
Keys(t) == DOMAIN db[t]

\* The values a foreign-key column may take: a row of its target table, or NULL.
RefChoices(t, col) == Keys(ForeignKeys[t][col]) \cup {None}

FkChoices(t) ==
  IF DOMAIN ForeignKeys[t] = {} THEN {<<>>}
  ELSE LET col == CHOOSE c \in DOMAIN ForeignKeys[t] : TRUE
       IN {col :> r : r \in RefChoices(t, col)}

\* INSERT into a hierarchy table: an autoincrement key, a name, the given parent
\* reference, the mixin's defaults.  Nothing reads the name, so new rows all
\* start as "n0"; Rename changes it.
Create(t) ==
  /\ now < MaxTime
  /\ t \in HierarchyTables
  /\ Cardinality(Keys(t)) < MaxRows
  /\ \E fk \in FkChoices(t) :
       db' = [db EXCEPT ![t] =
                @ @@ ((Cardinality(Keys(t)) + 1) :> NewRow([name |-> "n0"] @@ fk, now + 1))]
  /\ now' = now + 1
  /\ UNCHANGED <<res, walk, reply>>

\* UPDATE of the name column.
Rename(t, id) ==
  /\ now < MaxTime
  /\ t \in HierarchyTables
  /\ id \in Keys(t)
  /\ \E name \in Names \ {db[t][id].name} :
       db' = [db EXCEPT ![t][id] = OnUpdate([@ EXCEPT !.name = name], now + 1)]
  /\ now' = now + 1
  /\ UNCHANGED <<res, walk, reply>>

\* UPDATE of a foreign-key column: to another row of the target table, or to NULL.
Reparent(t, id, col) ==
  /\ now < MaxTime
  /\ id \in Keys(t)
  /\ col \in DOMAIN ForeignKeys[t]
  /\ \E ref \in RefChoices(t, col) \ {db[t][id][col]} :
       db' = [db EXCEPT ![t][id] = OnUpdate([@ EXCEPT ![col] = ref], now + 1)]
  /\ now' = now + 1
  /\ UNCHANGED <<res, walk, reply>>

\* A mutant of softDelete: a repeated call stamps deleted_at again.
MarkDeleted_restamp(row, t) ==
  OnUpdate([row EXCEPT !.is_deleted = TRUE, !.deleted_at = t], t)

\* softDelete on a row: sets is_deleted and deleted_at together, once; a
\* repeated call changes nothing.
MarkDeleted(row, t) ==
  IF row.is_deleted THEN row
  ELSE OnUpdate([row EXCEPT !.is_deleted = TRUE, !.deleted_at = t], t)

SoftDelete(t, id) ==
  /\ now < MaxTime
  /\ id \in Keys(t)
  /\ db' = [db EXCEPT ![t][id] = MarkDeleted(@, now + 1)]
  /\ now' = now + 1
  /\ UNCHANGED <<res, walk, reply>>

Next ==
  \/ \E t \in Tables : Create(t)
  \/ \E t \in Tables : \E id \in Keys(t) : Rename(t, id)
  \/ \E t \in Tables : \E id \in Keys(t) : \E col \in DOMAIN ForeignKeys[t] :
       Reparent(t, id, col)
  \/ \E t \in Tables : \E id \in Keys(t) : SoftDelete(t, id)

Spec == Init /\ [][Next]_vars

\* ------------------------------------------------------------------ reference walk
\* The chain of a hop list followed hop by hop from row id of table t, read
\* straight from the stored foreign keys: the row reached, or None at the first
\* NULL hop.
RECURSIVE Follow(_, _, _)
Follow(t, id, path) ==
  IF path = <<>> THEN [t |-> t, id |-> id]
  ELSE LET ref == db[t][id][Head(path)]
           tgt == ForeignKeys[t][Head(path)]
       IN IF ref = None THEN [t |-> tgt, id |-> None]
          ELSE Follow(tgt, ref, Tail(path))

\* No row that the hop list reaches from (t, id) is marked deleted.
NoDeletedOnChain(t, id, path) ==
  \A k \in 1..Len(path) :
    LET e == Follow(t, id, SubSeq(path, 1, k))
    IN e.id # None => ~db[e.t][e.id].is_deleted

\* ------------------------------------------------------------------ claims on Spec
\* C1: on every row of every table, is_deleted is true exactly when deleted_at
\* is non-null, whatever writes (create, rename, reparent, softDelete) came before.
C1_DeletedIffDeletedAt ==
  \A t \in Tables : \A id \in Keys(t) :
    db[t][id].is_deleted <=> (db[t][id].deleted_at # None)

\* A row created after the start, then soft-deleted, then renamed.
C1_Witness ==
  \E t \in Tables : \E id \in Keys(t) :
    /\ db[t][id].created_at > 1
    /\ db[t][id].is_deleted
    /\ db[t][id].deleted_at # None
    /\ db[t][id].updated_at > db[t][id].deleted_at

\* C7: soft deletion is monotonic: no step removes a row, clears is_deleted, or
\* clears or moves a deleted_at that is set.
C7_SoftDeleteMonotonic ==
  [][\A t \in Tables : \A id \in Keys(t) :
       /\ id \in DOMAIN db'[t]
       /\ db[t][id].is_deleted => db'[t][id].is_deleted
       /\ db[t][id].deleted_at # None => db'[t][id].deleted_at = db[t][id].deleted_at]_vars

\* Zone 1 soft-deleted at reading 2 and soft-deleted again at reading 3: nothing
\* else was written, and deleted_at still reads 2.
C7_Witness ==
  /\ now = 3
  /\ db["zone"][1].is_deleted
  /\ db["zone"][1].deleted_at = 2
  /\ \A t \in Tables : Keys(t) = DOMAIN OneChain[t]
  /\ \A t \in Tables : \A id \in Keys(t) : db[t][id].updated_at < 3

\* C3: a step that moves a zone from plant P to another plant Q makes every cell
\* whose chain passes through the zone resolve to Q, and writes nothing but the
\* zone's own plant_id and updated_at.
C3_ReparentZone ==
  [][\A z \in Keys("zone") :
       LET P == db["zone"][z].plant_id
           Q == db'["zone"][z].plant_id
       IN (P # None /\ Q # None /\ Q # P) =>
            /\ \A c \in Keys("cell") : Cell_zone(c) = z => Cell_plant(c)' = Q
            /\ db'["loop"] = db["loop"]
            /\ db'["line"] = db["line"]
            /\ db'["cell"] = db["cell"]
            /\ db'["zone"][z] =
                 [db["zone"][z] EXCEPT !.plant_id = Q,
                                       !.updated_at = db'["zone"][z].updated_at]]_vars

\* Zone 1 moved to plant 2; cell 1 resolves to plant 2 and its line, loop and the
\* cell itself were never written.
C3_Witness ==
  /\ db["zone"][1].plant_id = 2
  /\ db["zone"][1].updated_at > db["zone"][1].created_at
  /\ Cell_zone(1) = 1
  /\ Cell_plant(1) = 2
  /\ \A t \in {"loop", "line", "cell"} : db[t][1].updated_at = db[t][1].created_at

\* C4: a step that soft-deletes a loop or a zone leaves the raw walk of every
\* descendant cell as it was (the deleted ancestor and the plant above it are
\* still returned), while a live walk to the plant that resolved before the step
\* is unresolved at the deleted hop after it (hop 2 for a loop, 3 for a zone).
C4_RawKeepsLiveStops ==
  [][/\ \A l \in Keys("loop") :
          (~db["loop"][l].is_deleted /\ db'["loop"][l].is_deleted) =>
            \A c \in Keys("cell") : Cell_loop(c) = l =>
              /\ Cell_loop(c)' = l
              /\ Cell_zone(c)' = Cell_zone(c)
              /\ Cell_plant(c)' = Cell_plant(c)
              /\ LiveWalk("cell", c, "plant").hop = 0 =>
                   /\ Cell_plant(c)' # None
                   /\ LiveWalk("cell", c, "plant")' = [entity |-> None, hop |-> 2]
     /\ \A z \in Keys("zone") :
          (~db["zone"][z].is_deleted /\ db'["zone"][z].is_deleted) =>
            \A c \in Keys("cell") : Cell_zone(c) = z =>
              /\ Cell_zone(c)' = z
              /\ Cell_plant(c)' = Cell_plant(c)
              /\ LiveWalk("cell", c, "plant").hop = 0 =>
                   /\ Cell_plant(c)' # None
                   /\ LiveWalk("cell", c, "plant")' = [entity |-> None, hop |-> 3]]_vars

\* Loop 1 is deleted and nothing else on cell 1's chain is: the raw walk returns
\* loop 1 and a plant, the live walk is unresolved at hop 2.
C4_Witness ==
  /\ db["loop"][1].is_deleted
  /\ ~db["line"][1].is_deleted
  /\ Cell_loop(1) = 1
  /\ Cell_plant(1) # None
  /\ LiveWalk("cell", 1, "plant") = [entity |-> None, hop |-> 2]

\* C8: from a cell whose chain reaches no deleted row, the live walk to the plant
\* returns what the raw walk returns.
C8_LiveEqualsRaw ==
  \A c \in Keys("cell") :
    NoDeletedOnChain("cell", c, Chain["cell"]["plant"]) =>
      LiveWalk("cell", c, "plant").entity = Cell_plant(c)

\* After a reparent, with no row deleted anywhere, a cell resolves plant 2 on
\* both walks.
C8_Witness ==
  /\ \A t \in Tables : \A id \in Keys(t) : ~db[t][id].is_deleted
  /\ \E c \in Keys("cell") :
       /\ Cell_plant(c) = 2
       /\ LiveWalk("cell", c, "plant") = [entity |-> 2, hop |-> 0]
       /\ db["zone"][Cell_zone(c)].updated_at > db["zone"][Cell_zone(c)].created_at

\* ------------------------------------------------------------------ reads
\* A read of row id of table t: all its derived ancestors, as the properties
\* return them.  It writes nothing.
Resolve(t, id) ==
  /\ t \in DerivedTables
  /\ id \in Keys(t)
  /\ res' = [t |-> t, id |-> id, props |-> Derived(t, id)]
  /\ UNCHANGED <<db, now, walk, reply>>

\* A database with one row per class below the plants (two plants, two cells)
\* and the given value in every parent reference.
ResolveDB(zp, lz, ll, cl, tl, mc, pl, lp, am, aw) ==
  [EmptyDB EXCEPT
     !["plant"] = [i \in 1..2 |-> NewRow([name |-> "n0"], 1)],
     !["zone"]  = [i \in 1..1 |-> NewRow([name |-> "n0", plant_id |-> zp], 1)],
     !["loop"]  = [i \in 1..1 |-> NewRow([name |-> "n0", zone_id |-> lz], 1)],
     !["line"]  = [i \in 1..1 |-> NewRow([name |-> "n0", loop_id |-> ll], 1)],
     !["cell"]  = [i \in 1..2 |-> NewRow([name |-> "n0", line_id |-> cl[i]], 1)],
     !["user"]  = [i \in 1..2 |->
                     NewRow([name |-> "n0",
                             role |-> IF i = 1 THEN "TEAM_LEADER" ELSE "MEMBER"], 1)],
     !["team_leader"] = (1 :> NewRow([line_id |-> tl], 1)),
     !["member"]      = (2 :> NewRow([cell_id |-> mc], 1)),
     !["production"]  = [i \in 1..1 |-> NewRow([line_id |-> pl], 1)],
     !["loss"]        = [i \in 1..1 |-> NewRow([production_id |-> lp], 1)],
     !["attendance"]  = [i \in 1..1 |->
                           NewRow([member_id |-> am, working_cell_id |-> aw], 1)]]

InitResolve ==
  /\ \E zp \in {None, 1, 2}, lz \in {None, 1}, ll \in {None, 1},
        cl \in [1..2 -> {None, 1}], tl \in {None, 1}, mc \in {None, 1, 2},
        pl \in {None, 1}, lp \in {None, 1}, am \in {None, 2}, aw \in {None, 1, 2} :
       db = ResolveDB(zp, lz, ll, cl, tl, mc, pl, lp, am, aw)
  /\ now = 1
  /\ Quiet

NextResolve == \E t \in Tables : \E id \in Keys(t) : Resolve(t, id)

SpecResolve == InitResolve /\ [][NextResolve]_vars

\* ------------------------------------------------------------------ claims on SpecResolve
\* C2: every derived property a read returns is the row reached by following
\* the property's hop list hop by hop, and None exactly when a hop on the way is
\* NULL (the walk stops at the first one); a returned row is a row of the target
\* table, and every target level of the class is answered.
C2_RawWalk ==
  res # NoRes =>
    /\ DOMAIN res.props = DOMAIN Chain[res.t]
    /\ \A p \in DOMAIN res.props :
         LET e == Follow(res.t, res.id, Chain[res.t][p])
         IN /\ res.props[p] = e.id
            /\ res.props[p] # None => res.props[p] \in Keys(e.t)

\* A Loss read whose production and line are set, whose line has no loop, and
\* whose zone (above the gap) has a plant: line resolves, loop/zone/plant do not.
C2_Witness ==
  /\ res.t = "loss"
  /\ db["line"][1].loop_id = None
  /\ db["loop"][1].zone_id # None
  /\ db["zone"][1].plant_id # None
  /\ res.props.line = 1
  /\ res.props.loop = None
  /\ res.props.zone = None
  /\ res.props.plant = None

\* One level of the ancestry agrees with the next: a resolved plant is the plant
\* of the resolved zone, a resolved zone the zone of the resolved loop, a
\* resolved loop the loop of the resolved line.
Consistent(ln, lp, zn, pt) ==
  /\ pt # None => zn # None /\ pt = Zone_plant(zn)
  /\ zn # None => lp # None /\ zn = Loop_zone(lp)
  /\ lp # None => ln # None /\ lp = Line_loop(ln)

\* C10: in every state the derived ancestors of a row agree level by level, and
\* a row's derived ancestor is the same derived ancestor of its direct parent
\* whenever that parent is set.
C10_AncestorsCompose ==
  /\ \A l \in Keys("loop") :
       Loop_plant(l) # None => Loop_zone(l) # None /\ Loop_plant(l) = Zone_plant(Loop_zone(l))
  /\ \A l \in Keys("line") : Consistent(l, Line_loop(l), Line_zone(l), Line_plant(l))
  /\ \A c \in Keys("cell") :
       /\ Consistent(Cell_line(c), Cell_loop(c), Cell_zone(c), Cell_plant(c))
       /\ Cell_line(c) # None =>
            /\ Cell_loop(c) = Line_loop(Cell_line(c))
            /\ Cell_zone(c) = Line_zone(Cell_line(c))
            /\ Cell_plant(c) = Line_plant(Cell_line(c))
  /\ \A u \in Keys("team_leader") :
       /\ Consistent(TeamLeader_line(u), TeamLeader_loop(u), TeamLeader_zone(u),
                     TeamLeader_plant(u))
       /\ TeamLeader_line(u) # None =>
            /\ TeamLeader_zone(u) = Line_zone(TeamLeader_line(u))
            /\ TeamLeader_plant(u) = Line_plant(TeamLeader_line(u))
  /\ \A u \in Keys("member") :
       /\ Consistent(Member_line(u), Member_loop(u), Member_zone(u), Member_plant(u))
       /\ Member_cell(u) # None =>
            /\ Member_line(u) = Cell_line(Member_cell(u))
            /\ Member_loop(u) = Cell_loop(Member_cell(u))
            /\ Member_zone(u) = Cell_zone(Member_cell(u))
            /\ Member_plant(u) = Cell_plant(Member_cell(u))
  /\ \A q \in Keys("production") :
       /\ Consistent(Production_line(q), Production_loop(q), Production_zone(q),
                     Production_plant(q))
       /\ Production_line(q) # None =>
            /\ Production_zone(q) = Line_zone(Production_line(q))
            /\ Production_plant(q) = Line_plant(Production_line(q))
  /\ \A l \in Keys("loss") :
       /\ Consistent(Loss_line(l), Loss_loop(l), Loss_zone(l), Loss_plant(l))
       /\ Loss_production(l) # None =>
            /\ Loss_line(l) = Production_line(Loss_production(l))
            /\ Loss_loop(l) = Production_loop(Loss_production(l))
            /\ Loss_zone(l) = Production_zone(Loss_production(l))
            /\ Loss_plant(l) = Production_plant(Loss_production(l))
  /\ \A a \in Keys("attendance") :
       /\ Consistent(Attendance_working_line(a), Attendance_working_loop(a),
                     Attendance_working_zone(a), Attendance_working_plant(a))
       /\ Consistent(Attendance_member_line(a), Attendance_member_loop(a),
                     Attendance_member_zone(a), Attendance_member_plant(a))
       /\ Attendance_member(a) # None =>
            /\ Attendance_member_cell(a) = Member_cell(Attendance_member(a))
            /\ Attendance_member_line(a) = Member_line(Attendance_member(a))
            /\ Attendance_member_loop(a) = Member_loop(Attendance_member(a))
            /\ Attendance_member_zone(a) = Member_zone(Attendance_member(a))
            /\ Attendance_member_plant(a) = Member_plant(Attendance_member(a))
       /\ Attendance_working_cell(a) # None =>
            /\ Attendance_working_line(a) = Cell_line(Attendance_working_cell(a))
            /\ Attendance_working_loop(a) = Cell_loop(Attendance_working_cell(a))
            /\ Attendance_working_zone(a) = Cell_zone(Attendance_working_cell(a))
            /\ Attendance_working_plant(a) = Cell_plant(Attendance_working_cell(a))

\* Every parent reference is set and the zone sits under plant 2: the Loss, its
\* Production, the TeamLeader, the Member and both Attendance chains resolve
\* plant 2, and the Loss has been read.
C10_Witness ==
  /\ res.t = "loss"
  /\ res.props.plant = 2
  /\ Loss_plant(1) = 2
  /\ Production_plant(1) = 2
  /\ TeamLeader_plant(1) = 2
  /\ Member_plant(2) = 2
  /\ Attendance_member_plant(1) = 2
  /\ Attendance_working_plant(1) = 2

\* ------------------------------------------------------------------ attendance
\* Two disjoint chains plant i <- zone i <- loop i <- line i <- cell i, member i
\* assigned to cell i, and one attendance record.
TwoChains(am, aw) ==
  [EmptyDB EXCEPT
     !["plant"] = [i \in 1..2 |-> NewRow([name |-> "n0"], 1)],
     !["zone"]  = [i \in 1..2 |-> NewRow([name |-> "n0", plant_id |-> i], 1)],
     !["loop"]  = [i \in 1..2 |-> NewRow([name |-> "n0", zone_id |-> i], 1)],
     !["line"]  = [i \in 1..2 |-> NewRow([name |-> "n0", loop_id |-> i], 1)],
     !["cell"]  = [i \in 1..2 |-> NewRow([name |-> "n0", line_id |-> i], 1)],
     !["user"]  = [i \in 1..2 |-> NewRow([name |-> "n0", role |-> "MEMBER"], 1)],
     !["member"] = [i \in 1..2 |-> NewRow([cell_id |-> i], 1)],
     !["attendance"] = [i \in 1..1 |->
                          NewRow([member_id |-> am, working_cell_id |-> aw], 1)]]

InitAttend ==
  /\ \E am \in {None, 1, 2}, aw \in {None, 1, 2} : db = TwoChains(am, aw)
  /\ now = 1
  /\ Quiet

\* Writes to the attendance record, to the members and to the cells, and reads
\* of the attendance record.
NextAttend ==
  \/ \E t \in {"attendance", "member", "cell"} : \E id \in Keys(t) :
       \E col \in DOMAIN ForeignKeys[t] : Reparent(t, id, col)
  \/ \E id \in Keys("attendance") : Resolve("attendance", id)

SpecAttend == InitAttend /\ [][NextAttend]_vars

WorkingChain(a) ==
  <<Attendance_working_line(a), Attendance_working_loop(a),
    Attendance_working_zone(a), Attendance_working_plant(a)>>

MemberChain(a) ==
  <<Attendance_member_cell(a), Attendance_member_line(a), Attendance_member_loop(a),
    Attendance_member_zone(a), Attendance_member_plant(a)>>

HierarchyUnchanged == \A t \in HierarchyTables : db'[t] = db[t]

\* An unresolved chain answers None whatever the other chain holds, and each
\* plant is the plant of that chain's own cell, so cells under different plants
\* give different plants.
C5_NoFallback ==
  \A a \in Keys("attendance") :
    LET wc == Attendance_working_cell(a)
        m  == Attendance_member(a)
        mc == IF m = None THEN None ELSE Member_cell(m)
    IN /\ wc = None => WorkingChain(a) = <<None, None, None, None>>
       /\ mc = None => MemberChain(a) = <<None, None, None, None, None>>
       /\ wc # None => Attendance_working_plant(a) = Cell_plant(wc)
       /\ mc # None => Attendance_member_plant(a) = Cell_plant(mc)
       /\ (wc # None /\ mc # None /\ Cell_plant(wc) # None /\ Cell_plant(mc) # None
           /\ Cell_plant(wc) # Cell_plant(mc))
            => Attendance_working_plant(a) # Attendance_member_plant(a)

\* A step that leaves working_cell_id and the hierarchy as they were leaves the
\* working chain's answers as they were, whatever it does to the member side;
\* and the same with the two sides exchanged.
C5_IndependentStep ==
  \A a \in Keys("attendance") :
    /\ (db'["attendance"][a].working_cell_id = db["attendance"][a].working_cell_id
        /\ HierarchyUnchanged)
         => WorkingChain(a)' = WorkingChain(a)
    /\ (db'["attendance"][a].member_id = db["attendance"][a].member_id
        /\ db'["member"] = db["member"] /\ HierarchyUnchanged)
         => MemberChain(a)' = MemberChain(a)

\* C5: the working chain of an Attendance is decided by working_cell and its
\* ancestors alone and the assigned chain by member -> cell and its ancestors
\* alone: a write to one side never changes the other side's answers, an
\* unresolved side never takes the other side's value, and cells under different
\* plants resolve different plants.
C5_ChainsIndependent == [](C5_NoFallback) /\ [][C5_IndependentStep]_vars

\* The attendance record was rewritten, its member's cell is cell 1 and its
\* working cell is cell 2: the read answers plant 1 for the member and plant 2
\* for the working chain.
C5_Witness ==
  /\ res.t = "attendance"
  /\ db["attendance"][1].updated_at > db["attendance"][1].created_at
  /\ Attendance_member_cell(1) = 1
  /\ Attendance_working_cell(1) = 2
  /\ res.props.member_plant = 1
  /\ res.props.working_plant = 2
  /\ res.props = Derived("attendance", 1)

\* ------------------------------------------------------------------ users and roles
SapIds == 1..2

\* The specialization record that goes with each role tag; both admin tags take
\* the unanchored Admin record.
KindOf ==
  [ SUPER_ADMIN |-> "admin", ADMIN |-> "admin", PLANT_ADMIN |-> "plant_admin",
    PLANNER |-> "planner", TEAM_LEADER |-> "team_leader", MEMBER |-> "member" ]

\* The anchor column of a specialization record and the values a caller may pass.
AnchorChoices(kind) ==
  IF DOMAIN ForeignKeys[kind] = {} THEN {None}
  ELSE LET col == CHOOSE c \in DOMAIN ForeignKeys[kind] : TRUE
       IN RefChoices(kind, col)

AnchorValid(kind, anchor) ==
  IF DOMAIN ForeignKeys[kind] = {} THEN anchor = None
  ELSE LET col == CHOOSE c \in DOMAIN ForeignKeys[kind] : TRUE
       IN /\ anchor \in Keys(ForeignKeys[kind][col])
          /\ ~db[ForeignKeys[kind][col]][anchor].is_deleted

HasSpecialization(u) == \E k \in RoleTables : u \in Keys(k)

\* A mutant of the write-time check: the kind is not compared with the role tag.
AttachValid_any_kind(u, kind, anchor) ==
  /\ u \in Keys("user")
  /\ ~HasSpecialization(u)
  /\ AnchorValid(kind, anchor)

\* The write-time check of attachSpecialization.
AttachValid(u, kind, anchor) ==
  /\ u \in Keys("user")
  /\ kind = KindOf[db["user"][u].role]
  /\ ~HasSpecialization(u)
  /\ AnchorValid(kind, anchor)

Request(op, u, kind, anchor, result) ==
  [op |-> op, user |-> u, kind |-> kind, anchor |-> anchor, result |-> result]

\* createUser: a second user with the same sap_id (the primary key) is refused.
CreateUser(u, role) ==
  /\ now < MaxTime
  /\ u \in SapIds /\ role \in UserRole
  /\ IF u \in Keys("user")
     THEN /\ db' = db
          /\ reply' = Request("createUser", u, "none", None, "ValidationFailure")
     ELSE /\ db' = [db EXCEPT !["user"] =
                      @ @@ (u :> NewRow([name |-> "n0", role |-> role], now + 1))]
          /\ reply' = Request("createUser", u, "none", None, "ok")
  /\ now' = now + 1
  /\ UNCHANGED <<res, walk>>

\* attachSpecialization: inserts the role record keyed by the user's id, or
\* reports a validation failure and writes nothing.
AttachSpecialization(u, kind, anchor) ==
  /\ now < MaxTime
  /\ u \in SapIds /\ kind \in RoleTables /\ anchor \in AnchorChoices(kind)
  /\ IF AttachValid(u, kind, anchor)
     THEN /\ db' = [db EXCEPT ![kind] =
                      @ @@ (u :> NewRow([c \in DOMAIN ForeignKeys[kind] |-> anchor],
                                        now + 1))]
          /\ reply' = Request("attachSpecialization", u, kind, anchor, "ok")
     ELSE /\ db' = db
          /\ reply' = Request("attachSpecialization", u, kind, anchor, "ValidationFailure")
  /\ now' = now + 1
  /\ UNCHANGED <<res, walk>>

\* One plant, one line and one cell to anchor at; no users yet.
Anchors ==
  [EmptyDB EXCEPT
     !["plant"] = [i \in 1..1 |-> NewRow([name |-> "n0"], 1)],
     !["zone"]  = [i \in 1..1 |-> NewRow([name |-> "n0", plant_id |-> 1], 1)],
     !["loop"]  = [i \in 1..1 |-> NewRow([name |-> "n0", zone_id |-> 1], 1)],
     !["line"]  = [i \in 1..1 |-> NewRow([name |-> "n0", loop_id |-> 1], 1)],
     !["cell"]  = [i \in 1..1 |-> NewRow([name |-> "n0", line_id |-> 1], 1)]]

InitUsers ==
  /\ db = Anchors
  /\ now = 1
  /\ Quiet

NextUsers ==
  \/ \E u \in SapIds : \E role \in UserRole : CreateUser(u, role)
  \/ \E u \in SapIds : \E kind \in RoleTables : \E anchor \in AnchorChoices(kind) :
       AttachSpecialization(u, kind, anchor)

SpecUsers == InitUsers /\ [][NextUsers]_vars

\* Every role record belongs to a user, no user has two, and its kind is the one
\* the user's role tag names.
C6_OneMatchingRecord ==
  /\ \A k \in RoleTables : Keys(k) \subseteq Keys("user")
  /\ \A u \in Keys("user") :
       /\ Cardinality({k \in RoleTables : u \in Keys(k)}) <= 1
       /\ \A k \in RoleTables : u \in Keys(k) => k = KindOf[db["user"][u].role]

\* What an attachSpecialization call on an existing user answers: a wrong kind
\* or a second attach fails and writes nothing; a first attach of the matching
\* kind at a valid anchor succeeds and adds exactly that record.
C6_AttachStep ==
  reply'.op = "attachSpecialization" /\ reply'.user \in Keys("user") =>
    LET u == reply'.user
        k == reply'.kind
        mismatch == k # KindOf[db["user"][u].role]
    IN /\ (mismatch \/ HasSpecialization(u)) =>
            reply'.result = "ValidationFailure" /\ db' = db
       /\ (~mismatch /\ ~HasSpecialization(u) /\ AnchorValid(k, reply'.anchor)) =>
            /\ reply'.result = "ok"
            /\ DOMAIN db'[k] = Keys(k) \cup {u}
            /\ \A t \in Tables \ {k} : db'[t] = db[t]
       /\ reply'.result = "ValidationFailure" => db' = db

\* C6: after any sequence of createUser and attachSpecialization calls every
\* user has at most one specialization record, of the kind its role tag names; a
\* mismatched or second attach fails with ValidationFailure and changes nothing,
\* a first matching attach succeeds.
C6_Specialization == [](C6_OneMatchingRecord) /\ [][C6_AttachStep]_vars

\* A MEMBER user holds its Member record, and the last call, PlantAdmin on that
\* user, was refused.
C6_Witness ==
  /\ \E u \in Keys("user") :
       /\ db["user"][u].role = "MEMBER"
       /\ u \in Keys("member")
       /\ reply = Request("attachSpecialization", u, "plant_admin", 1, "ValidationFailure")
  /\ Keys("plant_admin") = {}

\* ------------------------------------------------------------------ a walk, read by read
\* The table reached after k hops of a hop list that starts at table t.
RECURSIVE HopTable(_, _, _)
HopTable(t, path, k) ==
  IF k = 0 THEN t ELSE HopTable(ForeignKeys[t][Head(path)], Tail(path), k - 1)

\* Evaluation of a Cell property  self.a.b.c if self.a and self.a.b else None
\* with every attribute read a step of its own.  For a hop list of n hops the
\* guard's conjunct i (i < n) is the attribute chain of the first i hops, read
\* again from self; chain n is the result expression.  walk.chain is the chain
\* being read, walk.pos the hops of it already read, walk.cur the object reached.
WalkBegin(c, p) ==
  /\ walk.status = "idle"
  /\ c \in Keys("cell")
  /\ p \in DOMAIN Chain["cell"]
  /\ walk' = [status |-> "running", id |-> c, p |-> p, chain |-> 1, pos |-> 0,
              cur |-> c, result |-> None]
  /\ UNCHANGED <<db, now, res, reply>>

WalkRead ==
  /\ walk.status = "running"
  /\ LET path == Chain["cell"][walk.p]
         n    == Len(path)
     IN IF walk.cur = None
        THEN \* an attribute of None: AttributeError
             walk' = [walk EXCEPT !.status = "raised"]
        ELSE LET v == db[HopTable("cell", path, walk.pos)][walk.cur][path[walk.pos + 1]]
             IN IF walk.pos + 1 < walk.chain
                THEN walk' = [walk EXCEPT !.pos = @ + 1, !.cur = v]
                ELSE IF walk.chain = n
                THEN walk' = [walk EXCEPT !.status = "returned", !.pos = @ + 1,
                                          !.cur = v, !.result = v]
                ELSE IF v = None
                THEN \* a falsy conjunct: the conditional takes its else branch
                     walk' = [walk EXCEPT !.status = "returned", !.pos = @ + 1,
                                          !.cur = v, !.result = None]
                ELSE walk' = [walk EXCEPT !.chain = @ + 1, !.pos = 0, !.cur = walk.id]
  /\ UNCHANGED <<db, now, res, reply>>

\* A walk from a cell, interleaved with reparents of the rows on its chain.
NextWalk ==
  \/ \E c \in Keys("cell") : \E p \in DOMAIN Chain["cell"] : WalkBegin(c, p)
  \/ WalkRead
  \/ \E t \in HierarchyTables : \E id \in Keys(t) : \E col \in DOMAIN ForeignKeys[t] :
       Reparent(t, id, col)

SpecWalk == Init /\ [][NextWalk]_vars

\* C9: a walk interleaved with writes to the rows of its own chain, every
\* attribute read being a fresh read, never raises: it ends with a row or with
\* None.
C9_WalkNeverRaises == walk.status # "raised"

====
